---- MODULE Spec2Model ----
(***************************************************************************)
(* Model of the collaborative-document backend.                            *)
(*                                                                         *)
(*   backend/document_store.py  DocumentStore: the shared document, its    *)
(*       version counter and the leased editor lock.  Every method is a    *)
(*       coroutine whose body runs inside `async with self._lock`.         *)
(*   backend/server.py          ClientRegistry, handle_client, broadcast:  *)
(*       one thread per connection.                                        *)
(*                                                                         *)
(* Two specifications:                                                     *)
(*   Spec        the DocumentStore driven by client tasks that await its   *)
(*               coroutines (any order, any interleaving, clock advancing) *)
(*               The class is documented "Thread-safe ... shared among     *)
(*               threads (clients)": callers may sit on different threads, *)
(*               so another caller can run wherever a caller is outside    *)
(*               `async with self._lock`.                                  *)
(*   ServerSpec  the threads of server.py, statement by statement.         *)
(*                                                                         *)
(* server.py calls the coroutine functions of DocumentStore without        *)
(* awaiting them (server.py:60 against document_store.py:28, and likewise  *)
(* :61, :81, :82, :92, :105, :113, :116, :126, :144).  Such a call only    *)
(* builds a coroutine object: the body of the method does not run.         *)
(* Unpacking that object at server.py:60 raises TypeError, which           *)
(* server.py:140 catches, so every handle_client thread goes from          *)
(* registration straight to the finally block; server.py:62-138 is never   *)
(* executed and is not part of ServerSpec.                                 *)
(***************************************************************************)
EXTENDS Integers, Sequences, FiniteSets, TLC

\* ------------------------------------------------------------------ bounds
MaxTime == 5
MaxVersion == 2
MaxInbox == 2

\* --------------------------------------------------------------- constants
\* DocumentStore.__init__(lock_timeout = 3.0)
lock_timeout == 3

None == "None"
Clients == {"A", "B"}
Contents == {"hi", "yo"}
Sessions == {"X", "Y"}

VARIABLES
    document,              \* self._document
    version,               \* self._version
    mutex,                 \* self._lock: the task inside `async with`, or None
    editor_lock_holder,    \* self._editor_lock_holder
    editor_lock_expires,   \* self._editor_lock_expires
    now,                   \* time.time()
    pc,                    \* per client task: "idle" or the statement it is at
    arg,                   \* per client task: new_content of the running call
    new_version,           \* per client task: new_version of apply_edit
                           \*   (document_store.py:105)
    last,                  \* the last completed call: caller (by), method (op),
                           \*   result (ret; for release_editor_lock, which
                           \*   returns nothing: whether it cleared the lock),
                           \*   after_noop: a get_lock_status that directly
                           \*   followed a release that cleared nothing,
                           \*   from/fresh: for try_acquire_editor_lock and
                           \*   get_lock_status, the holder field before the
                           \*   call and whether its lease was unexpired
    produced,              \* history: version -> content written by the replace
                           \*          that produced that version
    replaceLog,            \* history: values returned by update_document, in
                           \*          order of return
    lease,                 \* history: per client, expiry of its successful
                           \*          acquire/renew that is neither released nor
                           \*          expired (-1: none)
    clients,               \* ClientRegistry._clients: the registered client
                           \*   ids in insertion order (each maps to its own ws)
    at,                    \* per handle_client thread: the statement it is at
    targets,               \* per thread: `targets` of its running broadcast
                           \*   that are still to be sent to
    snap,                  \* per thread: `snapshot` of its broadcast
                           \*   (server.py:184)
    attempted,             \* history: per thread, the handles its broadcast
                           \*   has called ws.send on, in order
    conn,                  \* per connection: "none", "open", "peer_gone"
                           \*   (the peer went away), "closed" (handler returned)
    inbox,                 \* per connection: frames received from the peer that
                           \*   `for raw in ws` has not yet taken
    sent                   \* per connection: messages ws.send has accepted

storeVars == <<document, version, mutex, editor_lock_holder, editor_lock_expires>>
taskVars == <<pc, arg, last, new_version>>
histVars == <<produced, replaceLog, lease>>
bcastVars == <<snap, attempted>>
serverVars == <<clients, at, targets, conn, inbox, sent, bcastVars>>
vars == <<storeVars, now, taskVars, histVars, serverVars>>

\* "apply_edit" is apply_edit with a replace operation, "apply_edit_other"
\* apply_edit with any other operation type
Methods == {"get_document", "update_document", "try_acquire_editor_lock",
            "release_editor_lock", "renew_editor_lock", "get_lock_status",
            "apply_edit", "apply_edit_other"}

\* the methods that replace the content
Replacing == {"update_document", "apply_edit"}

\* ----------------------------------------------------------- pure helpers
\* bug: the critical section excludes nobody
LockFree_open == TRUE

\* `async with self._lock`: the lock can be taken when nobody is inside
LockFree == mutex = None

\* bug: a lease never expires
Expired_never(holder, expires, t) == FALSE

\* document_store.py:60 / :89  `self._editor_lock_holder and now > self._editor_lock_expires`
Expired(holder, expires, t) == holder # None /\ t > expires

\* document_store.py:60-61  the holder after the lazy expiry
AfterExpiry(holder, expires, t) == IF Expired(holder, expires, t) THEN None ELSE holder

\* bug: the holder is not looked at
MayAcquire_any(holder, c) == TRUE

\* bug: the holder itself is turned away
MayAcquire_free(holder, c) == holder = None

\* document_store.py:63  `not self._editor_lock_holder or self._editor_lock_holder == client_id`
MayAcquire(holder, c) == holder = None \/ holder = c

\* bug: the expiry is not looked at
MayRenew_stale(holder, expires, c, t) == holder = c

\* document_store.py:80  `self._editor_lock_holder == client_id and now <= self._editor_lock_expires`
MayRenew(holder, expires, c, t) == holder = c /\ t <= expires

\* the method returns r: leaves `async with self._lock` and records the call
Done(c, m, r) ==
    /\ pc' = [pc EXCEPT ![c] = "idle"]
    /\ last' = [by |-> c, op |-> m, ret |-> r,
                after_noop |-> m = "get_lock_status" /\ last.op = "release_editor_lock"
                                                      /\ last.ret = FALSE,
                from |-> IF m \in {"try_acquire_editor_lock", "get_lock_status"}
                         THEN editor_lock_holder ELSE None,
                fresh |-> m \in {"try_acquire_editor_lock", "get_lock_status"}
                          /\ now <= editor_lock_expires]
    /\ mutex' = None

\* -------------------------------------------------------------------- Init
Init ==
    /\ document = ""
    /\ version = 0
    /\ mutex = None
    /\ editor_lock_holder = None
    /\ editor_lock_expires = 0
    /\ now = 0
    /\ pc = [c \in Clients |-> "idle"]
    /\ arg = [c \in Clients |-> ""]
    /\ new_version = [c \in Clients |-> 0]
    /\ last = [by |-> None, op |-> "none", ret |-> FALSE, after_noop |-> FALSE,
               from |-> None, fresh |-> FALSE]
    /\ produced = [v \in {0} |-> ""]
    /\ replaceLog = <<>>
    /\ lease = [c \in Clients |-> -1]
    /\ clients = <<>>
    /\ at = [s \in Sessions |-> "accept"]
    /\ targets = [s \in Sessions |-> <<>>]
    /\ snap = [s \in Sessions |-> <<>>]
    /\ attempted = [s \in Sessions |-> <<>>]
    /\ conn = [s \in Sessions |-> "none"]
    /\ inbox = [s \in Sessions |-> <<>>]
    /\ sent = [s \in Sessions |-> <<>>]

\* ----------------------------------------------------------------- actions
\* A client task calls method m and enters `async with self._lock`.
acquire(c, m, content) ==
    /\ pc[c] = "idle"
    /\ LockFree
    /\ m \in Replacing => version < MaxVersion
    /\ mutex' = c
    /\ pc' = [pc EXCEPT ![c] = m]
    /\ arg' = [arg EXCEPT ![c] = IF m \in Replacing THEN content ELSE ""]
    /\ UNCHANGED <<document, version, editor_lock_holder, editor_lock_expires,
                   now, last, histVars>>
    /\ UNCHANGED <<new_version, serverVars>>

\* document_store.py:36
get_document(c) ==
    /\ pc[c] = "get_document"
    /\ Done(c, "get_document", <<document, version>>)
    /\ UNCHANGED <<document, version, editor_lock_holder, editor_lock_expires,
                   now, arg, histVars>>
    /\ UNCHANGED <<new_version, serverVars>>

\* bug: the critical section ends after the content is written
update_document_write_early(c) ==
    /\ pc[c] = "update_document"
    /\ document' = arg[c]
    /\ mutex' = None
    /\ pc' = [pc EXCEPT ![c] = "update_document_47"]
    /\ UNCHANGED <<version, editor_lock_holder, editor_lock_expires,
                   now, arg, last, histVars>>
    /\ UNCHANGED <<new_version, serverVars>>

\* document_store.py:46
update_document_write(c) ==
    /\ pc[c] = "update_document"
    /\ document' = arg[c]
    /\ pc' = [pc EXCEPT ![c] = "update_document_47"]
    /\ UNCHANGED <<version, mutex, editor_lock_holder, editor_lock_expires,
                   now, arg, last, histVars>>
    /\ UNCHANGED <<new_version, serverVars>>

\* document_store.py:47
update_document_incr(c) ==
    /\ pc[c] = "update_document_47"
    /\ version' = version + 1
    /\ produced' = [v \in DOMAIN produced \cup {version + 1} |->
                       IF v = version + 1 THEN document ELSE produced[v]]
    /\ pc' = [pc EXCEPT ![c] = "update_document_48"]
    /\ UNCHANGED <<document, mutex, editor_lock_holder, editor_lock_expires,
                   now, arg, last, replaceLog, lease>>
    /\ UNCHANGED <<new_version, serverVars>>

\* document_store.py:48
update_document_return(c) ==
    /\ pc[c] = "update_document_48"
    /\ Done(c, "update_document", version)
    /\ replaceLog' = Append(replaceLog, version)
    /\ UNCHANGED <<document, version, editor_lock_holder, editor_lock_expires,
                   now, arg, produced, lease>>
    /\ UNCHANGED <<new_version, serverVars>>

\* document_store.py:58-67
try_acquire_editor_lock(c) ==
    /\ pc[c] = "try_acquire_editor_lock"
    /\ LET h == AfterExpiry(editor_lock_holder, editor_lock_expires, now) IN
         IF MayAcquire(h, c)
         THEN /\ editor_lock_holder' = c
              /\ editor_lock_expires' = now + lock_timeout
              /\ lease' = [lease EXCEPT ![c] = now + lock_timeout]
              /\ Done(c, "try_acquire_editor_lock", TRUE)
         ELSE /\ editor_lock_holder' = h
              /\ UNCHANGED <<editor_lock_expires, lease>>
              /\ Done(c, "try_acquire_editor_lock", FALSE)
    /\ UNCHANGED <<document, version, now, arg, produced, replaceLog>>
    /\ UNCHANGED <<new_version, serverVars>>

\* bug: the caller is not compared with the holder
release_editor_lock_any(c) ==
    /\ pc[c] = "release_editor_lock"
    /\ editor_lock_holder' = None
    /\ editor_lock_expires' = 0
    /\ lease' = [lease EXCEPT ![c] = -1]
    /\ Done(c, "release_editor_lock", editor_lock_holder = c)
    /\ UNCHANGED <<document, version, now, arg, produced, replaceLog>>
    /\ UNCHANGED <<new_version, serverVars>>

\* document_store.py:72-74
release_editor_lock(c) ==
    /\ pc[c] = "release_editor_lock"
    /\ IF editor_lock_holder = c
       THEN /\ editor_lock_holder' = None
            /\ editor_lock_expires' = 0
       ELSE UNCHANGED <<editor_lock_holder, editor_lock_expires>>
    /\ lease' = [lease EXCEPT ![c] = -1]
    /\ Done(c, "release_editor_lock", editor_lock_holder = c)
    /\ UNCHANGED <<document, version, now, arg, produced, replaceLog>>
    /\ UNCHANGED <<new_version, serverVars>>

\* document_store.py:79-83
renew_editor_lock(c) ==
    /\ pc[c] = "renew_editor_lock"
    /\ IF MayRenew(editor_lock_holder, editor_lock_expires, c, now)
       THEN /\ editor_lock_expires' = now + lock_timeout
            /\ lease' = [lease EXCEPT ![c] = now + lock_timeout]
            /\ Done(c, "renew_editor_lock", TRUE)
       ELSE /\ UNCHANGED <<editor_lock_expires, lease>>
            /\ Done(c, "renew_editor_lock", FALSE)
    /\ UNCHANGED <<document, version, editor_lock_holder, now, arg, produced, replaceLog>>
    /\ UNCHANGED <<new_version, serverVars>>

\* bug: the holder field is reported without the expiry check
get_lock_status_raw(c) ==
    /\ pc[c] = "get_lock_status"
    /\ Done(c, "get_lock_status", <<editor_lock_holder, editor_lock_holder # None>>)
    /\ UNCHANGED <<document, version, editor_lock_holder, editor_lock_expires,
                   now, arg, histVars>>
    /\ UNCHANGED <<new_version, serverVars>>

\* document_store.py:88-91
get_lock_status(c) ==
    /\ pc[c] = "get_lock_status"
    /\ LET h == AfterExpiry(editor_lock_holder, editor_lock_expires, now) IN
         /\ editor_lock_holder' = h
         /\ Done(c, "get_lock_status", <<h, h # None>>)
    /\ UNCHANGED <<document, version, editor_lock_expires, now, arg, histVars>>
    /\ UNCHANGED <<new_version, serverVars>>

\* document_store.py:102-105  apply_edit with a replace operation awaits
\* update_document(content): the critical section of document_store.py:45-48,
\* whose return value becomes new_version
apply_edit_105(c) ==
    /\ pc[c] = "apply_edit"
    /\ document' = arg[c]
    /\ version' = version + 1
    /\ produced' = [v \in DOMAIN produced \cup {version + 1} |->
                       IF v = version + 1 THEN arg[c] ELSE produced[v]]
    /\ replaceLog' = Append(replaceLog, version + 1)
    /\ new_version' = [new_version EXCEPT ![c] = version + 1]
    /\ mutex' = None
    /\ pc' = [pc EXCEPT ![c] = "apply_edit_106"]
    /\ UNCHANGED <<editor_lock_holder, editor_lock_expires, now, arg, last, lease>>
    /\ UNCHANGED serverVars

\* document_store.py:106  the second `async with self._lock`
apply_edit_106(c) ==
    /\ pc[c] = "apply_edit_106"
    /\ LockFree
    /\ mutex' = c
    /\ pc' = [pc EXCEPT ![c] = "apply_edit_107"]
    /\ UNCHANGED <<document, version, editor_lock_holder, editor_lock_expires,
                   now, arg, last, new_version, histVars>>
    /\ UNCHANGED serverVars

\* document_store.py:107
apply_edit_107(c) ==
    /\ pc[c] = "apply_edit_107"
    /\ Done(c, "apply_edit", <<document, new_version[c]>>)
    /\ new_version' = [new_version EXCEPT ![c] = 0]
    /\ UNCHANGED <<document, version, editor_lock_holder, editor_lock_expires,
                   now, arg, histVars>>
    /\ UNCHANGED serverVars

\* document_store.py:109-110  apply_edit with another operation type
apply_edit_110(c) ==
    /\ pc[c] = "apply_edit_other"
    /\ Done(c, "apply_edit_other", <<document, version>>)
    /\ UNCHANGED <<document, version, editor_lock_holder, editor_lock_expires,
                   now, arg, new_version, histVars>>
    /\ UNCHANGED serverVars

\* the clock advances (time.time() read at document_store.py:58, :79, :88 does
\* not run backwards)
Tick ==
    /\ now < MaxTime
    /\ now' = now + 1
    /\ lease' = [c \in Clients |-> IF lease[c] < now + 1 THEN -1 ELSE lease[c]]
    /\ UNCHANGED <<storeVars, taskVars, produced, replaceLog>>
    /\ UNCHANGED serverVars

Next ==
    \/ \E c \in Clients, m \in Methods, content \in Contents : acquire(c, m, content)
    \/ \E c \in Clients : get_document(c)
    \/ \E c \in Clients : update_document_write(c)
    \/ \E c \in Clients : update_document_incr(c)
    \/ \E c \in Clients : update_document_return(c)
    \/ \E c \in Clients : try_acquire_editor_lock(c)
    \/ \E c \in Clients : release_editor_lock(c)
    \/ \E c \in Clients : renew_editor_lock(c)
    \/ \E c \in Clients : get_lock_status(c)
    \/ \E c \in Clients : apply_edit_105(c)
    \/ \E c \in Clients : apply_edit_106(c)
    \/ \E c \in Clients : apply_edit_107(c)
    \/ \E c \in Clients : apply_edit_110(c)
    \/ Tick

Spec == Init /\ [][Next]_vars

\* ================================================================ server.py
\* frames a peer may send on its connection
PeerFrames == {[type |-> "request_lock", content |-> ""],
               [type |-> "edit", content |-> "hi"]}

\* server.py:145-149  the message of the teardown broadcast
lock_status_unlocked == [type |-> "lock_status", is_locked |-> FALSE, lock_holder |-> None]

\* server.py:184-185  snapshot of the registry without the excluded handle
Targets(snapshot, exclude) == SelectSeq(snapshot, LAMBDA w : w # exclude)

\* server.py:54-55 with ClientRegistry.add (server.py:25-28): a connection is
\* accepted, its thread draws a client id and registers the handle
add(s) ==
    /\ at[s] = "accept"
    /\ clients' = Append(clients, s)
    /\ conn' = [conn EXCEPT ![s] = "open"]
    /\ at' = [at EXCEPT ![s] = "L60"]
    /\ UNCHANGED <<storeVars, now, taskVars, histVars, targets, inbox, sent>>
    /\ UNCHANGED bcastVars

\* server.py:60  get_document() is not awaited: unpacking the coroutine object
\* raises TypeError, caught at server.py:140; control reaches the finally block
handle_client_60(s) ==
    /\ at[s] = "L60"
    /\ at' = [at EXCEPT ![s] = "L144"]
    /\ UNCHANGED <<storeVars, now, taskVars, histVars, clients, targets, conn, inbox, sent>>
    /\ UNCHANGED bcastVars

\* server.py:144  release_editor_lock(client_id) is not awaited: the coroutine
\* object is dropped and the store is not touched
handle_client_144(s) ==
    /\ at[s] = "L144"
    /\ at' = [at EXCEPT ![s] = "L145"]
    /\ UNCHANGED <<storeVars, now, taskVars, histVars, clients, targets, conn, inbox, sent>>
    /\ UNCHANGED bcastVars

\* server.py:145-149 calling broadcast, server.py:184-185 (exclude = None)
broadcast_snapshot(s) ==
    /\ at[s] = "L145"
    /\ snap' = [snap EXCEPT ![s] = clients]
    /\ targets' = [targets EXCEPT ![s] = Targets(clients, None)]
    /\ attempted' = [attempted EXCEPT ![s] = <<>>]
    /\ at' = [at EXCEPT ![s] = "L186"]
    /\ UNCHANGED <<storeVars, now, taskVars, histVars, clients, conn, inbox, sent>>

\* bug: no try/except around ws.send, a failing send ends the loop
broadcast_send_abort(s) ==
    /\ at[s] = "L186"
    /\ targets[s] # <<>>
    /\ LET w == Head(targets[s]) IN
         /\ sent' = IF conn[w] = "open"
                    THEN [sent EXCEPT ![w] = Append(sent[w], lock_status_unlocked)]
                    ELSE sent
         /\ attempted' = [attempted EXCEPT ![s] = Append(attempted[s], w)]
         /\ targets' = [targets EXCEPT ![s] = IF conn[w] = "open" THEN Tail(targets[s])
                                                                  ELSE <<>>]
    /\ UNCHANGED <<storeVars, now, taskVars, histVars, clients, at, conn, inbox, snap>>

\* server.py:186-190  one iteration: ws.send succeeds on an open connection and
\* raises on any other; the exception is swallowed
broadcast_send(s) ==
    /\ at[s] = "L186"
    /\ targets[s] # <<>>
    /\ LET w == Head(targets[s]) IN
         /\ sent' = IF conn[w] = "open"
                    THEN [sent EXCEPT ![w] = Append(sent[w], lock_status_unlocked)]
                    ELSE sent
         /\ attempted' = [attempted EXCEPT ![s] = Append(attempted[s], w)]
    /\ targets' = [targets EXCEPT ![s] = Tail(targets[s])]
    /\ UNCHANGED <<storeVars, now, taskVars, histVars, clients, at, conn, inbox, snap>>

\* server.py:150-151 with ClientRegistry.remove (server.py:30-33); the handler
\* returns and the connection is closed
remove(s) ==
    /\ at[s] = "L186"
    /\ targets[s] = <<>>
    /\ clients' = SelectSeq(clients, LAMBDA w : w # s)
    /\ at' = [at EXCEPT ![s] = "closed"]
    /\ conn' = [conn EXCEPT ![s] = IF conn[s] = "open" THEN "closed" ELSE conn[s]]
    /\ UNCHANGED <<storeVars, now, taskVars, histVars, targets, inbox, sent>>
    /\ UNCHANGED bcastVars

\* the peer sends a frame; it waits in the connection for `for raw in ws`
peer_send(s, f) ==
    /\ conn[s] = "open"
    /\ Len(inbox[s]) < MaxInbox
    /\ inbox' = [inbox EXCEPT ![s] = Append(inbox[s], f)]
    /\ UNCHANGED <<storeVars, now, taskVars, histVars, clients, at, targets, conn, sent>>
    /\ UNCHANGED bcastVars

\* the peer goes away
peer_close(s) ==
    /\ conn[s] = "open"
    /\ conn' = [conn EXCEPT ![s] = "peer_gone"]
    /\ UNCHANGED <<storeVars, now, taskVars, histVars, clients, at, targets, inbox, sent>>
    /\ UNCHANGED bcastVars

ServerNext ==
    \/ \E s \in Sessions : add(s)
    \/ \E s \in Sessions : handle_client_60(s)
    \/ \E s \in Sessions : handle_client_144(s)
    \/ \E s \in Sessions : broadcast_snapshot(s)
    \/ \E s \in Sessions : broadcast_send(s)
    \/ \E s \in Sessions : remove(s)
    \/ \E s \in Sessions, f \in PeerFrames : peer_send(s, f)
    \/ \E s \in Sessions : peer_close(s)

ServerSpec == Init /\ [][ServerNext]_vars

\* ====================================================== DocumentStore claims
\* the call of method m by client c returns in this step
Returns(c, m) == pc[c] = m /\ pc'[c] = "idle"

\* the lock is held by somebody else than c and that lease has not expired
HeldByOther(c) ==
    /\ editor_lock_holder \notin {None, c}
    /\ now <= editor_lock_expires

\* C1: the version starts at 0, each replace increases it by exactly 1, it
\* never decreases or resets, after N replacements it equals N, and the k-th
\* replace to return returns k, whatever lock operations are interleaved.
C1_Counted ==
    /\ version = Len(replaceLog)
                   + Cardinality({c \in Clients : pc[c] = "update_document_48"})
    /\ \A k \in 1..Len(replaceLog) : replaceLog[k] = k

C1_Step ==
    /\ version' = version \/ version' = version + 1
    /\ \A c \in Clients :
          (pc[c] = "update_document_47" /\ pc'[c] # pc[c]) => version' = version + 1

C1_VersionGapless == version = 0 /\ []C1_Counted /\ [][C1_Step]_vars

C1_Witness ==
    /\ Len(replaceLog) >= 2
    /\ editor_lock_holder # None
    /\ last.op = "update_document"
    /\ last.ret = 2

\* C2: every get_document returns a (content, version) pair whose content is
\* the content written by the replace that produced that version (the empty
\* initial content for version 0).
C2_NoTornRead ==
    last.op = "get_document" =>
        /\ last.ret[2] \in DOMAIN produced
        /\ last.ret[1] = produced[last.ret[2]]

C2_Witness ==
    /\ last.op = "get_document"
    /\ last.ret[2] >= 2
    /\ produced[1] # produced[2]

\* C3: while another client holds an unexpired lease, try_acquire_editor_lock
\* returns false and leaves holder and expiry unchanged; no two clients have a
\* successful, unexpired and unreleased acquisition at the same time.
C3_Step ==
    \A b \in Clients :
        (Returns(b, "try_acquire_editor_lock") /\ HeldByOther(b)) =>
            /\ last'.ret = FALSE
            /\ editor_lock_holder' = editor_lock_holder
            /\ editor_lock_expires' = editor_lock_expires

C3_OneLease ==
    \A a, b \in Clients :
        (lease[a] # -1 /\ now <= lease[a] /\ lease[b] # -1 /\ now <= lease[b]) => a = b

C3_MutualExclusion == []C3_OneLease /\ [][C3_Step]_vars

C3_Witness ==
    /\ last.op = "try_acquire_editor_lock"
    /\ last.ret = FALSE
    /\ HeldByOther(last.by)
    /\ lease[editor_lock_holder] = editor_lock_expires

\* C4: once the clock is past the expiry of a lease that its holder did not
\* renew or release, try_acquire_editor_lock by any other client returns true
\* and makes that client the holder.
C4_Step ==
    \A b \in Clients :
        (/\ Returns(b, "try_acquire_editor_lock")
         /\ editor_lock_holder \notin {None, b}
         /\ now > editor_lock_expires) =>
            /\ last'.ret = TRUE
            /\ editor_lock_holder' = b
            /\ editor_lock_expires' = now + lock_timeout

C4_ExpiredLeaseIsFree == [][C4_Step]_vars

C4_Witness ==
    /\ last.op = "try_acquire_editor_lock"
    /\ last.ret = TRUE
    /\ last.from \notin {None, last.by}
    /\ ~last.fresh
    /\ editor_lock_holder = last.by

\* C5: renew_editor_lock(A) returns true and sets the expiry to now +
\* lock_timeout exactly when A is the holder and now <= expiry; in every other
\* state it returns false and changes no lock field.
C5_Step ==
    \A a \in Clients :
        Returns(a, "renew_editor_lock") =>
            IF editor_lock_holder = a /\ now <= editor_lock_expires
            THEN /\ last'.ret = TRUE
                 /\ editor_lock_expires' = now + lock_timeout
                 /\ editor_lock_holder' = a
            ELSE /\ last'.ret = FALSE
                 /\ editor_lock_holder' = editor_lock_holder
                 /\ editor_lock_expires' = editor_lock_expires

C5_RenewOnlyLive == [][C5_Step]_vars

C5_Witness ==
    /\ last.op = "renew_editor_lock"
    /\ last.ret = FALSE
    /\ editor_lock_holder = last.by
    /\ now > editor_lock_expires

\* C6: release_editor_lock by a client that is not the holder changes neither
\* holder nor expiry, and a get_lock_status made while the holder's lease is
\* unexpired reports that holder with is_locked true; release by the holder
\* clears the lock.
C6_Step ==
    /\ \A b \in Clients :
          Returns(b, "release_editor_lock") =>
              IF editor_lock_holder = b
              THEN editor_lock_holder' = None /\ editor_lock_expires' = 0
              ELSE /\ editor_lock_holder' = editor_lock_holder
                   /\ editor_lock_expires' = editor_lock_expires
    /\ \A c \in Clients :
          (/\ Returns(c, "get_lock_status")
           /\ editor_lock_holder # None
           /\ now <= editor_lock_expires) =>
              /\ last'.ret = <<editor_lock_holder, TRUE>>
              /\ editor_lock_holder' = editor_lock_holder

C6_ForeignReleaseIsNoop == [][C6_Step]_vars

C6_Witness ==
    /\ last.op = "get_lock_status"
    /\ last.after_noop
    /\ last.ret[2] = TRUE
    /\ editor_lock_holder = last.ret[1]

\* C7: try_acquire_editor_lock by the holder before its lease expires returns
\* true, keeps it the holder and sets the expiry to the time of this call plus
\* lock_timeout, which is not earlier than the expiry it had.
C7_Step ==
    \A a \in Clients :
        (/\ Returns(a, "try_acquire_editor_lock")
         /\ editor_lock_holder = a
         /\ now <= editor_lock_expires) =>
            /\ last'.ret = TRUE
            /\ editor_lock_holder' = a
            /\ editor_lock_expires' = now + lock_timeout
            /\ editor_lock_expires' >= editor_lock_expires

C7_ReentrantAcquire == [][C7_Step]_vars

C7_Witness ==
    /\ last.op = "try_acquire_editor_lock"
    /\ last.ret = TRUE
    /\ last.from = last.by
    /\ last.fresh
    /\ editor_lock_holder = last.by
    /\ editor_lock_expires > lock_timeout

\* the lock is unset, or set with its lease expired
LockIsFree == editor_lock_holder = None \/ now > editor_lock_expires

\* C15: a lock whose lease has expired is observably no lock: with the holder
\* set and now > expiry, try_acquire_editor_lock, renew_editor_lock and
\* get_lock_status return, for every client, the nominal holder included, what
\* they return when the holder is unset (true; false; (None, false)), and
\* get_lock_status never reports is_locked true for an expired holder.
C15_Step ==
    \A c \in Clients :
        /\ (Returns(c, "try_acquire_editor_lock") /\ LockIsFree) =>
              /\ last'.ret = TRUE
              /\ editor_lock_holder' = c
              /\ editor_lock_expires' = now + lock_timeout
        /\ (Returns(c, "renew_editor_lock") /\ LockIsFree) => last'.ret = FALSE
        /\ (Returns(c, "get_lock_status") /\ LockIsFree) => last'.ret = <<None, FALSE>>
        /\ (Returns(c, "get_lock_status") /\ ~LockIsFree) =>
              last'.ret = <<editor_lock_holder, TRUE>>

C15_ExpiredIsUnlocked == [][C15_Step]_vars

C15_Witness ==
    /\ last.op = "get_lock_status"
    /\ last.from # None
    /\ ~last.fresh
    /\ last.ret = <<None, FALSE>>

\* C18: apply_edit with a replace operation returns the content that this call
\* wrote together with the version this call produced, also with other replace
\* calls running concurrently; with another operation type it returns the
\* current consistent pair.
C18_ApplyEditPair ==
    /\ last.op = "apply_edit" =>
          /\ last.ret[2] \in DOMAIN produced
          /\ last.ret[1] = produced[last.ret[2]]
    /\ last.op = "apply_edit_other" =>
          /\ last.ret[2] \in DOMAIN produced
          /\ last.ret[1] = produced[last.ret[2]]

\* ============================================================ server claims
HasSent(s, m) == \E i \in 1..Len(sent[s]) : sent[s][i] = m

HasSentType(s, t) == \E i \in 1..Len(sent[s]) : sent[s][i].type = t

\* the peers of x and y have sent the frames of the scenario, neither went
\* away, the two connections overlapped and no handler has a step left to take
C9_Scenario(x, y) ==
    /\ x # y
    /\ inbox[x] = <<[type |-> "request_lock", content |-> ""],
                    [type |-> "edit", content |-> "hi"]>>
    /\ inbox[y] = <<[type |-> "edit", content |-> "hi"]>>
    /\ conn[x] = "closed" /\ conn[y] = "closed"
    /\ \A s \in Sessions : at[s] = "closed"
    /\ Len(sent[y]) = 2          \* y was registered while x's thread ran

\* C9: from the initial store, with X and Y connected: X's request_lock is
\* answered lock_response{acquired: true, lock_holder: X}; Y's edit "hi" is
\* answered error{edit_locked, lock_holder: X}; X's edit "hi" is answered
\* ack{version: 1}, Y is sent document{content: "hi", version: 1} and X is not
\* sent that document.
C9_EndToEnd ==
    \A x, y \in Sessions :
        C9_Scenario(x, y) =>
            /\ HasSent(x, [type |-> "lock_response", acquired |-> TRUE, lock_holder |-> x])
            /\ HasSent(y, [type |-> "error", message |-> "edit_locked", lock_holder |-> x])
            /\ HasSent(x, [type |-> "ack", version |-> 1])
            /\ \E i \in 1..Len(sent[y]) :
                  /\ sent[y][i].type = "document"
                  /\ sent[y][i].content = "hi"
                  /\ sent[y][i].version = 1
            /\ ~HasSentType(x, "document")

\* a send iteration of the broadcast of s happens in this step
Sends(s) == at[s] = "L186" /\ targets[s] # <<>> /\ targets'[s] # targets[s]

\* C12: broadcast attempts a send to every handle of its snapshot except the
\* excluded one; a send that fails neither stops the sends to the remaining
\* handles nor reaches the calling session, which goes on where it was, and the
\* failing handle stays in the registry.
C12_Step ==
    \A s \in Sessions :
        /\ Sends(s) =>
              LET w == Head(targets[s]) IN
                /\ attempted'[s] = Append(attempted[s], w)
                /\ targets'[s] = Tail(targets[s])
                /\ at'[s] = at[s]
                /\ clients' = clients
                /\ conn[w] = "open" => sent'[w] = Append(sent[w], lock_status_unlocked)
        /\ (at[s] = "L186" /\ at'[s] # "L186") => attempted[s] = Targets(snap[s], None)

C12_Complete ==
    \A s \in Sessions :
        /\ at[s] = "closed" => attempted[s] = Targets(snap[s], None)
        /\ \A e \in Sessions \cup {None} :
              {Targets(snap[s], e)[i] : i \in 1..Len(Targets(snap[s], e))}
                  = {snap[s][i] : i \in 1..Len(snap[s])} \ {e}

C12_BroadcastTolerant == []C12_Complete /\ [][C12_Step]_vars

\* the send to w failed, the later send to s itself went through, the
\* broadcast returned and w is still registered
C12_Witness ==
    \E s, w \in Sessions :
        /\ at[s] = "closed"
        /\ attempted[s] = <<w, s>>
        /\ conn[w] = "peer_gone"
        /\ at[w] = "L60"
        /\ sent[w] = <<>>
        /\ sent[s] = <<lock_status_unlocked>>
        /\ clients = <<w>>

\* C20: the first message sent to a connection is its init message; no
\* broadcast of another session reaches it between its registration and init.
C20_InitFirst ==
    \A s \in Sessions : sent[s] # <<>> => sent[s][1].type = "init"

====
